---- MODULE Spec2Model ----
(***************************************************************************)
(* Model of the resume editor session of frontend/src/Editor.js: the       *)
(* version history (codeHistory, currentCodeVersionId, htmlCode), the      *)
(* chat-driven edit loop (handleSendMessage), undo (handleUndo), ingestion *)
(* (handleExtractAndGenerate), persistence (saveResume) and preview        *)
(* rendering (updatePdfPreview), with the requests in flight to the        *)
(* backend and to the storage service.                                     *)
(*                                                                         *)
(* A handler that awaits a request is split at the await: the part before  *)
(* it is one action, the part after it is the action that handles the      *)
(* response.  The part after the await reads the values the handler's      *)
(* closure captured when it was invoked (React state is captured per       *)
(* render), so a request in flight carries those captured values.          *)
(* State updates of one synchronous run are applied together.              *)
(***************************************************************************)
EXTENDS Integers, Sequences, FiniteSets, Bags, TLC

\* ------------------------------------------------------------------ bounds
\* number of requests to the generation services (POST /process_html and
\* POST /modify-resume) one session makes
MaxRequests == 2
\* the same bound for a session on /editor/new: it sends no save requests, so
\* it is explored one request deeper
MaxRequestsUnsaved == 3
\* number of delete requests the dashboard has in flight at once
MaxDeletes == 2

\* --------------------------------------------------------- program constants
\* history: conversationHistory.slice(-5)
HistoryWindow == 5
\* data.html_content.length > 50
MinHtmlLength == 50
\* const initialVersion = 1
InitialVersion == 1

\* ------------------------------------------------------------------ inputs
\* HTML snapshots the edit service can return
Codes == {"A", "B"}
\* HTML snapshots the ingestion service can return
IngestCodes == {"A"}
\* the length of an HTML text: "" is the placeholder of a new row, "s" a
\* text of exactly MinHtmlLength characters, the others are real documents
HtmlLength(h) == IF h = "" THEN 0 ELSE IF h = "s" THEN MinHtmlLength ELSE MinHtmlLength + 1
\* texts the user can have in the prompt box, as sequences of characters
Prompts == {<<>>, <<" ">>, <<" ", "a">>}
\* the durable rows a session can open: a row created by the dashboard
\* (empty content, version 1) or one saved by an earlier session
InitialRows == {[html |-> "", version |-> 1], [html |-> "s", version |-> 1],
                [html |-> "B", version |-> 2]}
\* the :id route parameter: "new" or the id of a stored document
DocIds == {"new", "doc"}
\* the rows the dashboard's user has in storage
ResumeIds == {1, 2, 3}
\* deletingId when no delete is running (null)
NoResume == 0
\* codeVersionId of a chat message that has none
NoVersion == 0
\* pdfUrl when there is no preview (null)
NoUrl == 0

VARIABLES
  docId,                 \* useParams().id
  row,                   \* the durable document row (html_content, version)
  step, isFetchingInitialData,
  selectedTemplate, resumeFile,
  htmlCode, pdfUrl,
  chatMessages, userPrompt, codeHistory, currentCodeVersionId,
  isProcessing, isGenerationDone, isGeneratingPreview, isModifying, isSaving,
  gen,                   \* the handleExtractAndGenerate run: its position and captured pdfUrl
  modifyReqs,            \* /modify-resume requests in flight, with the closure of their handler
  saveReqs,              \* storage updates in flight
  renderReqs,            \* /preview-pdf-bytes requests in flight
  blobs,                 \* the blob URLs: blobs[u] is the object behind URL u
  requests,              \* requests made to the generation services so far
  renderFailed,          \* a render request has failed since the last one was issued with none pending
  saveFailed,            \* a save request has failed since the last one was issued with none pending
  resumes, isLoading, deletingId,   \* the state of the Dashboard component
  storedIds,             \* the ids of the user's rows in storage
  fetching,              \* the select of fetchResumes is in flight
  deleteReqs,            \* handleDeleteResume runs waiting at their await
  last                   \* the handler that ran in the last step and the calls it made

vars == <<docId, row, step, isFetchingInitialData, selectedTemplate, resumeFile,
          htmlCode, pdfUrl, chatMessages, userPrompt, codeHistory,
          currentCodeVersionId, isProcessing, isGenerationDone,
          isGeneratingPreview, isModifying, isSaving, gen, modifyReqs,
          saveReqs, renderReqs, blobs, requests, renderFailed, saveFailed,
          resumes, isLoading, deletingId, storedIds, fetching, deleteReqs, last>>

\* ----------------------------------------------------------------- helpers
\* s without its element at index i
RemoveAt(s, i) == [j \in 1..(Len(s) - 1) |-> IF j < i THEN s[j] ELSE s[j + 1]]

\* Array.prototype.findIndex(item => item.id === id): 0-based, -1 when absent
FindIndex(hist, id) ==
  IF \E i \in 1..Len(hist) : hist[i].id = id
  THEN (CHOOSE i \in 1..Len(hist) :
          /\ hist[i].id = id
          /\ \A j \in 1..(i - 1) : hist[j].id # id) - 1
  ELSE -1

\* codeHistory.find(v => v.id === id)?.code || fallback
FindCodeOr(hist, id, fallback) ==
  LET i == FindIndex(hist, id)
  IN IF i >= 0 /\ hist[i + 1].code # "" THEN hist[i + 1].code ELSE fallback

\* Array.prototype.slice(-n)
SliceLast(s, n) == IF Len(s) <= n THEN s ELSE SubSeq(s, Len(s) - n + 1, Len(s))

\* String.prototype.trim on a sequence of characters
RECURSIVE TrimLeft(_)
TrimLeft(p) == IF p # <<>> /\ Head(p) = " " THEN TrimLeft(Tail(p)) ELSE p
RECURSIVE TrimRight(_)
TrimRight(p) ==
  IF p # <<>> /\ p[Len(p)] = " " THEN TrimRight(SubSeq(p, 1, Len(p) - 1)) ELSE p
\* faulty variant: white space is not removed
TrimNothing(p) == p

Trim(p) == TrimRight(TrimLeft(p))

\* updatedMessages.map(msg => ({ role: msg.role, content: msg.content }))
RoleContent(msgs) == [i \in 1..Len(msgs) |-> [role |-> msgs[i].role, content |-> msgs[i].content]]

\* URL.revokeObjectURL(url), guarded by if (pdfUrl): the object is released
RevokeObjectURL(bs, url) ==
  IF url = NoUrl THEN bs ELSE [bs EXCEPT ![url] = [code |-> "", revoked |-> TRUE]]

\* URL.createObjectURL: a URL that is new to every holder of a URL.  A URL
\* that was revoked and that neither the state nor a pending closure holds
\* can never be seen again, so its number is given out again.
CreateObjectURL(bs, held) ==
  LET free == {u \in DOMAIN bs : bs[u].revoked /\ u \notin held}
  IN IF free = {} THEN Len(bs) + 1
     ELSE CHOOSE u \in free : \A v \in free : u <= v

\* bs with the object obj behind URL u
WithObject(bs, u, obj) ==
  IF u \in DOMAIN bs THEN [bs EXCEPT ![u] = obj] ELSE Append(bs, obj)

\* the URLs captured by the handlers that are waiting for a response
HeldByClosures ==
  {modifyReqs[j].pdfUrl : j \in DOMAIN modifyReqs} \cup {gen.pdfUrl}

\* the overlay of an ingestion in progress and the loading screen cover the controls
ControlsReachable == ~isFetchingInitialData /\ ~isProcessing

\* ------------------------------------------------- record of the last step
\* what a handler saw when it started
Snapshot ==
  [codeHistory |-> codeHistory, currentCodeVersionId |-> currentCodeVersionId,
   htmlCode |-> htmlCode, chatMessages |-> chatMessages,
   saveReqs |-> saveReqs, renderReqs |-> renderReqs,
   step |-> step, pdfUrl |-> pdfUrl, userPrompt |-> userPrompt,
   isModifying |-> isModifying, modifyReqs |-> modifyReqs,
   isProcessing |-> isProcessing, requests |-> requests,
   isGenerationDone |-> isGenerationDone, selectedTemplate |-> selectedTemplate,
   resumeFile |-> resumeFile]
NoSnapshot ==
  [codeHistory |-> <<>>, currentCodeVersionId |-> 0, htmlCode |-> "",
   chatMessages |-> <<>>, saveReqs |-> EmptyBag, renderReqs |-> EmptyBag,
   step |-> 0, pdfUrl |-> NoUrl, userPrompt |-> <<>>,
   isModifying |-> FALSE, modifyReqs |-> <<>>,
   isProcessing |-> FALSE, requests |-> 0,
   isGenerationDone |-> FALSE, selectedTemplate |-> FALSE, resumeFile |-> FALSE]
NoRequest == [html_code |-> "", currentCodeVersionId |-> 0, sent |-> 0]
NoResponse == [outcome |-> "none", html_code |-> ""]

\* the step ran handler op, which called saveResume with each of saves and
\* updatePdfPreview with each of renders; steps of no interest are "other"
Ran(op, saves, renders) ==
  [op |-> op, saveCalls |-> saves, renderCalls |-> renders,
   pre |-> IF op = "other" THEN NoSnapshot ELSE Snapshot,
   req |-> NoRequest, resp |-> NoResponse]

\* the step handled the response resp to the edit request req
RanEdit(req, resp, saves, renders) ==
  [op |-> "modifyResponse", saveCalls |-> saves, renderCalls |-> renders,
   pre |-> Snapshot,
   req |-> [html_code |-> req.html_code, currentCodeVersionId |-> req.currentCodeVersionId,
            sent |-> req.sent],
   resp |-> resp]

\* the step handled the response resp of the ingestion service
RanIngest(op, resp, saves, renders) == [Ran(op, saves, renders) EXCEPT !.resp = resp]

NoCalls == Ran("other", <<>>, <<>>)

\* --------------------------------------------------- saveResume, first part
\* if (!id || id === 'new') return; setIsSaving(true); ... update(updates)
SaveSkipped == docId = "new"

SaveResume(newHtml, newVersion, awaited) ==
  IF SaveSkipped
  THEN UNCHANGED <<isSaving, saveReqs, saveFailed>>
  ELSE /\ isSaving' = TRUE
       /\ saveFailed' = (saveReqs # EmptyBag /\ saveFailed)
       /\ saveReqs' = saveReqs (+) SetToBag({[html |-> newHtml, version |-> newVersion,
                                              awaited |-> awaited]})

\* --------------------------------------------- updatePdfPreview, first part
\* setIsGeneratingPreview(true); if (pdfUrl) URL.revokeObjectURL(pdfUrl); request
UpdatePdfPreview(codeToRender, capturedPdfUrl, awaited) ==
  /\ isGeneratingPreview' = TRUE
  /\ blobs' = RevokeObjectURL(blobs, capturedPdfUrl)
  /\ renderReqs' = renderReqs (+) SetToBag({[code |-> codeToRender, awaited |-> awaited]})
  /\ renderFailed' = (renderReqs # EmptyBag /\ renderFailed)

\* -------------------------------------------------------------------- Init
\* the bound on generation requests of this session
RequestBound == IF docId = "new" THEN MaxRequestsUnsaved ELSE MaxRequests
\* HTML snapshots the edit service can return in this session: a session on
\* /editor/new is explored with one more
EditCodes == IF docId = "new" THEN Codes \cup {"C"} ELSE Codes

\* the state after construction, with used requests counted so far
InitWith(used) ==
  /\ docId \in DocIds
  /\ row \in IF docId = "new" THEN {[html |-> "", version |-> 1]} ELSE InitialRows
  /\ step = 1
  /\ isFetchingInitialData = TRUE
  /\ selectedTemplate = FALSE
  /\ resumeFile = FALSE
  /\ htmlCode = ""
  /\ pdfUrl = NoUrl
  /\ chatMessages = <<>>
  /\ userPrompt = <<>>
  /\ codeHistory = <<>>
  /\ currentCodeVersionId = 1
  /\ isProcessing = FALSE
  /\ isGenerationDone = FALSE
  /\ isGeneratingPreview = FALSE
  /\ isModifying = FALSE
  /\ isSaving = FALSE
  /\ gen = [pc |-> "idle", pdfUrl |-> NoUrl]
  /\ modifyReqs = <<>>
  /\ saveReqs = EmptyBag
  /\ renderReqs = EmptyBag
  /\ blobs = <<>>
  /\ requests = used
  /\ renderFailed = FALSE
  /\ saveFailed = FALSE
  /\ resumes = <<>>
  /\ isLoading = TRUE
  /\ deletingId = NoResume
  /\ storedIds = ResumeIds
  /\ fetching = TRUE
  /\ deleteReqs = <<>>
  /\ last = NoCalls

Init == InitWith(0)

\* every variable except the call record, grouped for UNCHANGED
dashVars == <<resumes, isLoading, deletingId, storedIds, fetching, deleteReqs>>
envVars == <<docId, requests, dashVars>>
formVars == <<selectedTemplate, resumeFile>>
historyVars == <<htmlCode, codeHistory, currentCodeVersionId>>
saveVars == <<isSaving, saveReqs, saveFailed>>
renderVars == <<isGeneratingPreview, blobs, renderReqs, renderFailed>>
genVars == <<isProcessing, isGenerationDone, gen>>
chatVars == <<chatMessages, userPrompt, isModifying, modifyReqs>>

\* ------------------------------------------------ initial load (useEffect)
\* init(): id === 'new' -> setIsFetchingInitialData(false)
InitNew ==
  /\ isFetchingInitialData
  /\ docId = "new"
  /\ isFetchingInitialData' = FALSE
  /\ last' = Ran("other", <<>>, <<>>)
  /\ UNCHANGED <<envVars, row, step, formVars, historyVars, pdfUrl, saveVars,
                 renderVars, genVars, chatVars>>

\* faulty variant: a text of exactly MinHtmlLength characters is taken too
HasStoredSnapshotFromMin(r) == r.html # "" /\ HtmlLength(r.html) >= MinHtmlLength

\* data.html_content && data.html_content.length > 50
HasStoredSnapshot(r) == r.html # "" /\ HtmlLength(r.html) > MinHtmlLength

\* faulty variant: the pointer keeps its initial value when a row is loaded
LoadedVersionIgnored(r) == InitialVersion

\* setCurrentCodeVersionId(data.version)
LoadedVersion(r) == r.version

\* fetchResumeData(id): the select succeeds with the row, or fails
FetchResumeData(outcome) ==
  /\ isFetchingInitialData
  /\ docId # "new"
  /\ isFetchingInitialData' = FALSE
  /\ IF outcome = "ok" /\ HasStoredSnapshot(row)
     THEN /\ htmlCode' = row.html
          /\ codeHistory' = <<[id |-> row.version, code |-> row.html]>>
          /\ currentCodeVersionId' = LoadedVersion(row)
          /\ step' = 2
          /\ UpdatePdfPreview(row.html, pdfUrl, FALSE)
          /\ last' = RanIngest("load", [outcome |-> outcome, html_code |-> row.html],
                               <<>>, <<row.html>>)
     ELSE /\ UNCHANGED <<historyVars, step, renderVars>>
          /\ last' = RanIngest("load", [outcome |-> outcome, html_code |-> ""],
                               <<>>, <<>>)
  /\ UNCHANGED <<envVars, row, formVars, pdfUrl, saveVars, genVars, chatVars>>

\* ------------------------------------------------------- template step (1)
\* onClick={() => setStep(1)}: sidebar button and back arrow
SetStep1 ==
  /\ ControlsReachable
  /\ step' = 1
  /\ last' = Ran("other", <<>>, <<>>)
  /\ UNCHANGED <<envVars, row, isFetchingInitialData, formVars, historyVars,
                 pdfUrl, saveVars, renderVars, genVars, chatVars>>

\* onClick={() => setSelectedTemplate(t)}
SelectTemplate ==
  /\ ControlsReachable
  /\ step = 1
  /\ selectedTemplate' = TRUE
  /\ last' = Ran("other", <<>>, <<>>)
  /\ UNCHANGED <<envVars, row, step, isFetchingInitialData, resumeFile,
                 historyVars, pdfUrl, saveVars, renderVars, genVars, chatVars>>

\* onChange={(e) => e.target.files?.[0] && setResumeFile(e.target.files[0])}
SelectFile ==
  /\ ControlsReachable
  /\ step = 1
  /\ resumeFile' = TRUE
  /\ last' = Ran("other", <<>>, <<>>)
  /\ UNCHANGED <<envVars, row, step, isFetchingInitialData, selectedTemplate,
                 historyVars, pdfUrl, saveVars, renderVars, genVars, chatVars>>

\* disabled={isProcessing || !resumeFile || !selectedTemplate}
GenerateDisabled == isProcessing \/ ~resumeFile \/ ~selectedTemplate

\* if (!resumeFile || !selectedTemplate)
ValidationFailed == ~resumeFile \/ ~selectedTemplate

\* setIsProcessing(true); setIsGenerationDone(false); ... POST /process_html
ProcessHtmlRequest(op) ==
  /\ requests < RequestBound
  /\ requests' = requests + 1
  /\ isProcessing' = TRUE
  /\ isGenerationDone' = FALSE
  /\ gen' = [pc |-> "request", pdfUrl |-> pdfUrl]
  /\ last' = Ran(op, <<>>, <<>>)

\* faulty variant: the return after the alert is missing
AlertAndContinue == ProcessHtmlRequest("generateRejected")

\* alert("Please select a template and upload a resume."); return
AlertAndReturn ==
  /\ last' = Ran("generateRejected", <<>>, <<>>)
  /\ UNCHANGED <<requests, genVars>>

\* handleExtractAndGenerate up to the await of POST /process_html.  The
\* Generate button runs it only when it is enabled; the handler's own
\* validation covers a call made without a file or a template.
HandleExtractAndGenerate ==
  /\ ControlsReachable
  /\ step = 1
  /\ IF ValidationFailed
     THEN AlertAndReturn
     ELSE ~GenerateDisabled /\ ProcessHtmlRequest("other")
  /\ UNCHANGED <<docId, dashVars, row, step, isFetchingInitialData, formVars,
                 historyVars, pdfUrl, saveVars, renderVars, chatVars>>

\* the greeting handleExtractAndGenerate puts in the chat
Greeting == [role |-> "ai", content |-> "generated", codeVersionId |-> 1]

\* faulty variant: success = false is not looked at
IngestSucceededUnlessThrown(outcome) == outcome # "threw"

\* if (response.data.success), inside try: a thrown request goes to catch
IngestSucceeded(outcome) == outcome = "success"

\* faulty variant: the first version is appended to the history there is
FirstHistoryAppended(initialCode) ==
  Append(codeHistory, [id |-> InitialVersion, code |-> initialCode])

\* setCodeHistory([{ id: initialVersion, code: initialCode }])
FirstHistory(initialCode) == <<[id |-> InitialVersion, code |-> initialCode]>>

\* handleExtractAndGenerate after the await of POST /process_html
ProcessHtmlResponse(outcome, initialCode) ==
  /\ gen.pc = "request"
  /\ IF IngestSucceeded(outcome)
     THEN /\ codeHistory' = FirstHistory(initialCode)
          /\ currentCodeVersionId' = InitialVersion
          /\ htmlCode' = initialCode
          /\ step' = 2
          /\ SaveResume(initialCode, InitialVersion, TRUE)
          /\ IF SaveSkipped
             THEN /\ UpdatePdfPreview(initialCode, gen.pdfUrl, TRUE)
                  /\ gen' = [pc |-> "render", pdfUrl |-> NoUrl]
                  /\ last' = RanIngest("ingested",
                                       [outcome |-> outcome, html_code |-> initialCode],
                                       <<[html |-> initialCode, version |-> InitialVersion]>>,
                                       <<initialCode>>)
             ELSE /\ gen' = [gen EXCEPT !.pc = "save"]
                  /\ last' = RanIngest("ingested",
                                       [outcome |-> outcome, html_code |-> initialCode],
                                       <<[html |-> initialCode, version |-> InitialVersion]>>,
                                       <<>>)
                  /\ UNCHANGED renderVars
          /\ UNCHANGED <<isProcessing, isGenerationDone>>
     ELSE /\ isProcessing' = FALSE
          /\ gen' = [pc |-> "idle", pdfUrl |-> NoUrl]
          /\ last' = RanIngest("ingestFailed", [outcome |-> outcome, html_code |-> ""],
                               <<>>, <<>>)
          /\ UNCHANGED <<historyVars, step, saveVars, renderVars, isGenerationDone>>
  /\ UNCHANGED <<envVars, row, isFetchingInitialData, formVars, pdfUrl, chatVars>>

\* handleOverlayComplete, fired by the overlay's timer once isGenerationDone
HandleOverlayComplete ==
  /\ gen.pc = "overlay"
  /\ isProcessing' = FALSE
  /\ isGenerationDone' = FALSE
  /\ gen' = [gen EXCEPT !.pc = "idle"]
  /\ last' = Ran("other", <<>>, <<>>)
  /\ UNCHANGED <<envVars, row, step, isFetchingInitialData, formVars, historyVars,
                 pdfUrl, saveVars, renderVars, chatVars>>

\* the save status shown in the editor header: isSaving ? "Saving..." : "Saved"
SaveStatus == IF isSaving THEN "Saving" ELSE "Saved"

\* ------------------------------------------------- saveResume, second part
\* the storage service applies the update (or fails); finally setIsSaving(false).
\* The save awaited by handleExtractAndGenerate then continues with
\* await updatePdfPreview(initialCode).
\* faulty variant: the flag is lowered only after a save that succeeded
IsSavingAfterSuccessOnly(outcome) == outcome # "ok"

\* finally { setIsSaving(false) }
IsSavingAfter(outcome) == FALSE

SaveComplete(req, outcome) ==
  /\ BagIn(req, saveReqs)
  /\ row' = IF outcome = "ok"
            THEN [html |-> req.html, version |-> req.version]
            ELSE row
  /\ isSaving' = IsSavingAfter(outcome)
  /\ saveReqs' = saveReqs (-) SetToBag({req})
  /\ saveFailed' = (saveFailed \/ outcome # "ok")
  /\ IF req.awaited
     THEN /\ UpdatePdfPreview(req.html, gen.pdfUrl, TRUE)
          /\ gen' = [pc |-> "render", pdfUrl |-> NoUrl]
          /\ last' = Ran(IF outcome = "ok" THEN "other" ELSE "saveFailed",
                         <<>>, <<req.html>>)
     ELSE /\ UNCHANGED <<renderVars, gen>>
          /\ last' = Ran(IF outcome = "ok" THEN "other" ELSE "saveFailed", <<>>, <<>>)
  /\ UNCHANGED <<envVars, step, isFetchingInitialData, formVars, historyVars,
                 pdfUrl, isProcessing, isGenerationDone, chatVars>>

\* ------------------------------------------- updatePdfPreview, second part
\* the response arrives: createObjectURL, setPdfUrl; or the request fails.
\* Then setIsGeneratingPreview(false).  The render awaited by
\* handleExtractAndGenerate then continues with the greeting.
RenderComplete(req, outcome) ==
  /\ BagIn(req, renderReqs)
  /\ IF outcome = "ok"
     THEN LET blobUrl == CreateObjectURL(blobs, HeldByClosures)
          IN /\ blobs' = WithObject(blobs, blobUrl,
                                    [code |-> req.code, revoked |-> FALSE])
             /\ pdfUrl' = blobUrl
     ELSE UNCHANGED <<blobs, pdfUrl>>
  /\ isGeneratingPreview' = FALSE
  /\ renderReqs' = renderReqs (-) SetToBag({req})
  /\ renderFailed' = (renderFailed \/ outcome # "ok")
  /\ IF req.awaited
     THEN /\ chatMessages' = <<Greeting>>
          /\ isGenerationDone' = TRUE
          /\ gen' = [gen EXCEPT !.pc = "overlay"]
     ELSE UNCHANGED <<chatMessages, isGenerationDone, gen>>
  /\ last' = Ran(IF outcome = "ok" THEN "other" ELSE "renderFailed", <<>>, <<>>)
  /\ UNCHANGED <<envVars, row, step, isFetchingInitialData, formVars, historyVars,
                 saveVars, isProcessing, userPrompt, isModifying, modifyReqs>>

\* ----------------------------------------------------------- edit loop (2)
\* onChange={(e) => setUserPrompt(e.target.value)} of the textarea, disabled={isModifying}
SetUserPrompt(p) ==
  /\ ControlsReachable
  /\ step = 2
  /\ ~isModifying
  /\ p # userPrompt
  /\ userPrompt' = p
  /\ last' = Ran("other", <<>>, <<>>)
  /\ UNCHANGED <<envVars, row, step, isFetchingInitialData, formVars, historyVars,
                 pdfUrl, saveVars, renderVars, genVars, chatMessages, isModifying,
                 modifyReqs>>

\* faulty variant: the in-flight flag is never raised
ModifyingNeverSet == FALSE

\* setIsModifying(true) before the request
ModifyingWhileInFlight == TRUE

\* session.getToken(): resolves to a token, resolves to null (no active
\* session), or rejects
TokenOutcomes == {"ok", "none", "threw"}

\* faulty variant: the request is sent without waiting for the token
SecureApiRequestUnguarded(token) == 1

\* secureApiRequest: const token = await session.getToken(); ... return axios(config).
\* The number of HTTP requests it sends: none when getToken rejects.
SecureApiRequest(token) == IF token = "threw" THEN 0 ELSE 1

\* const currentCode = codeHistory.find(v => v.id === currentCodeVersionId)?.code || htmlCode
CurrentCode == FindCodeOr(codeHistory, currentCodeVersionId, htmlCode)

\* handleSendMessage up to the await of POST /modify-resume; token is the
\* outcome of session.getToken()
HandleSendMessage(token) ==
  IF Trim(userPrompt) = <<>>
  THEN /\ last' = Ran("sendDropped", <<>>, <<>>)
       /\ UNCHANGED <<requests, chatVars>>
  ELSE LET currentPrompt == userPrompt
           newUserMessage == [role |-> "user", content |-> currentPrompt,
                              codeVersionId |-> NoVersion]
           updatedMessages == Append(chatMessages, newUserMessage)
           conversationHistory == RoleContent(updatedMessages)
           currentCode == CurrentCode
       IN /\ requests < RequestBound
          /\ requests' = requests + 1
          /\ userPrompt' = <<>>
          /\ isModifying' = ModifyingWhileInFlight
          /\ chatMessages' = updatedMessages
          /\ modifyReqs' = Append(modifyReqs,
                 [html_code |-> currentCode,
                  prompt |-> currentPrompt,
                  history |-> SliceLast(conversationHistory, HistoryWindow),
                  currentCodeVersionId |-> currentCodeVersionId,
                  pdfUrl |-> pdfUrl,
                  token |-> token,
                  sent |-> SecureApiRequest(token)])
          /\ last' = Ran("send", <<>>, <<>>)

\* send button: disabled={isModifying || !userPrompt.trim()}
SendDisabled == isModifying \/ Trim(userPrompt) = <<>>

ClickSend ==
  /\ ControlsReachable
  /\ step = 2
  /\ ~SendDisabled
  /\ \E token \in TokenOutcomes : HandleSendMessage(token)
  /\ UNCHANGED <<docId, dashVars, row, step, isFetchingInitialData, formVars,
                 historyVars, pdfUrl, saveVars, renderVars, genVars>>

\* textarea onKeyDown: Enter without shift, if (!isModifying) handleSendMessage()
EnterBlocked == isModifying

PressEnter ==
  /\ ControlsReachable
  /\ step = 2
  /\ ~EnterBlocked
  /\ \E token \in TokenOutcomes : HandleSendMessage(token)
  /\ UNCHANGED <<docId, dashVars, row, step, isFetchingInitialData, formVars,
                 historyVars, pdfUrl, saveVars, renderVars, genVars>>

\* faulty variant: every successful reply counts as a change
IsCodeChangedAlways(newCode, currentCode) == TRUE

\* const isCodeChanged = newCode !== currentCode
IsCodeChanged(newCode, currentCode) == newCode # currentCode

\* faulty variant: the id is not advanced for a changed document
NewVersionIdKept(isCodeChanged, capturedVersionId) == capturedVersionId

\* const newVersionId = isCodeChanged ? currentCodeVersionId + 1 : currentCodeVersionId
NewVersionId(isCodeChanged, capturedVersionId) ==
  IF isCodeChanged THEN capturedVersionId + 1 ELSE capturedVersionId

\* faulty variant: success = false is not looked at
ResponseSucceededUnlessThrown(outcome) == outcome # "threw"

\* if (response.data.success), inside try: a thrown request goes to catch
ResponseSucceeded(outcome) == outcome = "success"

\* faulty variant: the synthetic reply is tagged with the version on display
FailureMessageTagged(outcome) ==
  [role |-> "ai", content |-> IF outcome = "rejected" THEN "sorry" ELSE "error",
   codeVersionId |-> currentCodeVersionId]

\* the synthetic reply of the else branch and of the catch block
FailureMessage(outcome) ==
  [role |-> "ai", content |-> IF outcome = "rejected" THEN "sorry" ELSE "error",
   codeVersionId |-> NoVersion]

\* faulty variant: the flag is lowered inside try, so a thrown request skips it
ModifyingAfterUnlessThrown(outcome) == outcome = "threw"

\* setIsModifying(false) after the try/catch
ModifyingAfter(outcome) == FALSE

\* handleSendMessage after the await: the response of request i arrives
\* (success with newCode, success = false, or the request throws); when no
\* request went out the await throws
ModifyResponse(i, outcome, newCode) ==
  /\ i \in DOMAIN modifyReqs
  /\ modifyReqs[i].sent = 0 => outcome = "threw"
  /\ LET req == modifyReqs[i]
         currentCode == req.html_code
         isCodeChanged == IsCodeChanged(newCode, currentCode)
         newVersionId == NewVersionId(isCodeChanged, req.currentCodeVersionId)
     IN IF ResponseSucceeded(outcome)
        THEN /\ IF isCodeChanged
                THEN /\ codeHistory' = Append(codeHistory, [id |-> newVersionId, code |-> newCode])
                     /\ currentCodeVersionId' = newVersionId
                     /\ htmlCode' = newCode
                     /\ SaveResume(newCode, newVersionId, FALSE)
                     /\ UpdatePdfPreview(newCode, req.pdfUrl, FALSE)
                     /\ last' = RanEdit(req, [outcome |-> outcome, html_code |-> newCode],
                                        <<[html |-> newCode, version |-> newVersionId]>>,
                                        <<newCode>>)
                ELSE /\ UNCHANGED <<historyVars, saveVars, renderVars>>
                     /\ last' = RanEdit(req, [outcome |-> outcome, html_code |-> newCode],
                                        <<>>, <<>>)
             /\ chatMessages' = Append(chatMessages,
                    [role |-> "ai", content |-> "reply", codeVersionId |-> newVersionId])
        ELSE /\ UNCHANGED <<historyVars, saveVars, renderVars>>
             /\ chatMessages' = Append(chatMessages, FailureMessage(outcome))
             /\ last' = RanEdit(req, [outcome |-> outcome, html_code |-> ""], <<>>, <<>>)
  /\ isModifying' = ModifyingAfter(outcome)
  /\ modifyReqs' = RemoveAt(modifyReqs, i)
  /\ UNCHANGED <<envVars, row, step, isFetchingInitialData, formVars, pdfUrl,
                 genVars, userPrompt>>

\* -------------------------------------------------------------------- undo
\* undo button: disabled={findIndex(...) <= 0 || isSaving || isModifying}.
\* The index test of the button repeats the test handleUndo makes itself, so
\* the click is taken whenever the other two conditions allow it and the
\* handler decides on the index.
UndoBlocked == isSaving \/ isModifying

\* faulty variant: the entry at the current index is taken
PrevVersionOffByOne(hist, currentIndex) == hist[currentIndex + 1]

\* const prevVersion = codeHistory[currentIndex - 1]
PrevVersion(hist, currentIndex) == hist[currentIndex]

\* if (currentIndex > 0)
CanStepBack(currentIndex) == currentIndex > 0

HandleUndo ==
  /\ ControlsReachable
  /\ step = 2
  /\ ~UndoBlocked
  /\ LET currentIndex == FindIndex(codeHistory, currentCodeVersionId)
     IN IF CanStepBack(currentIndex)
        THEN LET prevVersion == PrevVersion(codeHistory, currentIndex)
             IN /\ htmlCode' = prevVersion.code
                /\ currentCodeVersionId' = prevVersion.id
                /\ UpdatePdfPreview(prevVersion.code, pdfUrl, FALSE)
                /\ SaveResume(prevVersion.code, prevVersion.id, FALSE)
                /\ last' = Ran("undo",
                               <<[html |-> prevVersion.code, version |-> prevVersion.id]>>,
                               <<prevVersion.code>>)
        ELSE /\ UNCHANGED <<htmlCode, currentCodeVersionId, saveVars, renderVars>>
             /\ last' = Ran("undoNothing", <<>>, <<>>)
  /\ UNCHANGED <<envVars, row, step, isFetchingInitialData, formVars, codeHistory,
                 pdfUrl, genVars, chatVars>>

\* ---------------------------------------------------------- specification
Next ==
  \/ InitNew
  \/ \E outcome \in {"ok", "error"} : FetchResumeData(outcome)
  \/ SetStep1
  \/ SelectTemplate
  \/ SelectFile
  \/ HandleExtractAndGenerate
  \/ \E outcome \in {"success", "rejected", "threw"}, initialCode \in IngestCodes :
       ProcessHtmlResponse(outcome, initialCode)
  \/ HandleOverlayComplete
  \/ \E req \in BagToSet(saveReqs), outcome \in {"ok", "error"} : SaveComplete(req, outcome)
  \/ \E req \in BagToSet(renderReqs), outcome \in {"ok", "error"} : RenderComplete(req, outcome)
  \/ \E p \in Prompts : SetUserPrompt(p)
  \/ ClickSend
  \/ PressEnter
  \/ \E i \in DOMAIN modifyReqs, outcome \in {"success", "rejected", "threw"}, newCode \in EditCodes :
       ModifyResponse(i, outcome, newCode)
  \/ HandleUndo

Spec == Init /\ [][Next]_vars

\* A request that was sent is answered or fails, a promise that is awaited
\* settles, and the timer of the completion overlay fires.
Fairness ==
  /\ WF_vars(\E outcome \in {"success", "rejected", "threw"}, initialCode \in IngestCodes :
               ProcessHtmlResponse(outcome, initialCode))
  /\ WF_vars(\E req \in BagToSet(saveReqs), outcome \in {"ok", "error"} :
               SaveComplete(req, outcome))
  /\ WF_vars(\E req \in BagToSet(renderReqs), outcome \in {"ok", "error"} :
               RenderComplete(req, outcome))
  /\ WF_vars(HandleOverlayComplete)

\* In FairSpec the request of the earlier session that produced a stored
\* document counts as one of the MaxRequests.
FairInit ==
  \E used \in {0, 1} :
    /\ InitWith(used)
    /\ used = 1 <=> (docId # "new" /\ HasStoredSnapshot(row))

FairSpec == FairInit /\ [][Next]_vars /\ Fairness

\* ================================================================ Dashboard
\* The dashboard is a component of its own (route /): its state is resumes,
\* isLoading and deletingId, and it is never mounted together with the editor.
editorVars == <<docId, row, step, isFetchingInitialData, selectedTemplate, resumeFile,
                htmlCode, pdfUrl, chatMessages, userPrompt, codeHistory,
                currentCodeVersionId, isProcessing, isGenerationDone,
                isGeneratingPreview, isModifying, isSaving, gen, modifyReqs,
                saveReqs, renderReqs, blobs, requests, renderFailed, saveFailed>>

\* .order('updated_at', { ascending: false }): the ids of S, newest first
\* (a row with a larger id was updated later)
RECURSIVE Ordered(_)
Ordered(S) ==
  IF S = {} THEN <<>>
  ELSE LET newest == CHOOSE x \in S : \A y \in S : y <= x
       IN <<newest>> \o Ordered(S \ {newest})

\* the handler of the dashboard that ran in the last step
DashRan(op, resumeId, outcome) ==
  [op |-> op, resumeId |-> resumeId, outcome |-> outcome,
   pre |-> [resumes |-> resumes, deletingId |-> deletingId,
            deleteReqs |-> deleteReqs, storedIds |-> storedIds]]

\* getAuthenticatedSupabase: the credential of the client it returns.  first
\* is the outcome of getToken({ template: 'supabase' }), second the outcome
\* of the getToken() of the catch block.
GetAuthenticatedSupabase(first, second) == IF first # "threw" THEN first ELSE second

\* fetchResumes after its await (the effect calls it when the component mounts)
FetchResumesComplete(outcome) ==
  /\ fetching
  /\ fetching' = FALSE
  /\ resumes' = IF outcome = "ok" THEN Ordered(storedIds) ELSE resumes
  /\ isLoading' = FALSE
  /\ last' = DashRan("fetched", NoResume, outcome)
  /\ UNCHANGED <<editorVars, deletingId, storedIds, deleteReqs>>

\* faulty variant: the list is left as it is
FilterNothing(list, resumeId) == list

\* prev.filter(r => r.id !== resumeId)
Filter(list, resumeId) == SelectSeq(list, LAMBDA r : r # resumeId)

\* handleDeleteResume up to its await: the trash button of a listed resume,
\* the answer to window.confirm, and the credential of the storage client
HandleDeleteResume(resumeId, confirmed, first, second) ==
  /\ ~isLoading
  /\ \E k \in DOMAIN resumes : resumes[k] = resumeId
  /\ IF ~confirmed
     THEN /\ UNCHANGED <<deletingId, deleteReqs>>
          /\ last' = DashRan("deleteDeclined", resumeId, "none")
     ELSE /\ Len(deleteReqs) < MaxDeletes
          /\ deletingId' = resumeId
          /\ deleteReqs' = Append(deleteReqs,
                 [resumeId |-> resumeId,
                  bearer |-> GetAuthenticatedSupabase(first, second)])
          /\ last' = DashRan("deleteConfirmed", resumeId, "none")
  /\ UNCHANGED <<editorVars, resumes, isLoading, storedIds, fetching>>

\* handleDeleteResume after its await: the delete of run i returned no error
\* ("ok"), returned an error, or the call threw; then finally
\* setDeletingId(null).  A run whose client could not be built sent nothing.
DeleteComplete(i, outcome) ==
  LET req == deleteReqs[i]
  IN /\ req.bearer = "threw" => outcome = "threw"
     /\ IF outcome = "ok"
        THEN /\ storedIds' = storedIds \ {req.resumeId}
             /\ resumes' = Filter(resumes, req.resumeId)
        ELSE /\ storedIds' \in IF outcome = "threw" /\ req.bearer # "threw"
                               THEN {storedIds, storedIds \ {req.resumeId}}
                               ELSE {storedIds}
             /\ UNCHANGED resumes
     /\ deletingId' = NoResume
     /\ deleteReqs' = RemoveAt(deleteReqs, i)
     /\ last' = DashRan("deleteComplete", req.resumeId, outcome)
     /\ UNCHANGED <<editorVars, isLoading, fetching>>

DashNext ==
  \/ \E outcome \in {"ok", "error", "threw"} : FetchResumesComplete(outcome)
  \/ \E resumeId \in ResumeIds, confirmed \in BOOLEAN, first \in TokenOutcomes,
        second \in TokenOutcomes :
       HandleDeleteResume(resumeId, confirmed, first, second)
  \/ \E i \in DOMAIN deleteReqs, outcome \in {"ok", "error", "threw"} :
       DeleteComplete(i, outcome)

\* the dashboard right after it is mounted
DashInit == InitWith(0) /\ docId = "new"

DashSpec == DashInit /\ [][DashNext]_vars

\* ================================================================== claims
\* the last step handled a successful edit response whose html_code differs
\* from the html_code that was sent: an accepted edit
AcceptedEdit ==
  /\ last.op = "modifyResponse"
  /\ last.resp.outcome = "success"
  /\ last.resp.html_code # last.req.html_code

\* the last step handled a successful edit response with the html_code that was sent
UnchangedReply ==
  /\ last.op = "modifyResponse"
  /\ last.resp.outcome = "success"
  /\ last.resp.html_code = last.req.html_code

\* the last step handled a failed edit call
FailedEdit ==
  /\ last.op = "modifyResponse"
  /\ last.resp.outcome \in {"rejected", "threw"}

\* history hist holds the ids 1, 2, ..., Len(hist) in that order and current is the last
NumberedFromOne(hist, current) ==
  /\ Len(hist) >= 1
  /\ \A i \in 1..Len(hist) : hist[i].id = i
  /\ current = Len(hist)

\* the largest id in a non-empty history
MaxId(hist) == CHOOSE m \in {hist[i].id : i \in 1..Len(hist)} :
                 \A i \in 1..Len(hist) : hist[i].id <= m

\* the save request saveResume(html, version) sends without being awaited
SaveRequest(html, version) == [html |-> html, version |-> version, awaited |-> FALSE]
\* the render request updatePdfPreview(code) sends without being awaited
RenderRequest(code) == [code |-> code, awaited |-> FALSE]

\* C1: a successful ingestion leaves the history [{id 1}] with current version
\* 1, and every accepted edit that finds the ids 1..n with n current (no undo
\* since) leaves the ids 1..n+1 with n+1 current: after N accepted edits the
\* history holds N+1 entries with the ids 1..N+1 and the current version is N+1.
C1_AcceptedEditsNumberVersions ==
  /\ last.op = "ingested"
       => /\ codeHistory = <<[id |-> 1, code |-> htmlCode]>>
          /\ currentCodeVersionId = 1
  /\ AcceptedEdit /\ NumberedFromOne(last.pre.codeHistory, last.pre.currentCodeVersionId)
       => /\ Len(codeHistory) = Len(last.pre.codeHistory) + 1
          /\ NumberedFromOne(codeHistory, currentCodeVersionId)

\* C2: no two entries of codeHistory share a version id, and the entry an
\* accepted edit appends has the largest id already in the history plus one.
C2_VersionIdsUnique ==
  /\ \A i, j \in 1..Len(codeHistory) :
       codeHistory[i].id = codeHistory[j].id => i = j
  /\ AcceptedEdit /\ last.pre.codeHistory # <<>>
       => codeHistory[Len(codeHistory)].id = MaxId(last.pre.codeHistory) + 1

\* handleUndo moved the pointer to the entry before the one that was current
UndoMovedToPrecedingEntry ==
  LET i == FindIndex(last.pre.codeHistory, last.pre.currentCodeVersionId)
  IN /\ i > 0
     /\ currentCodeVersionId = last.pre.codeHistory[i].id
     /\ htmlCode = last.pre.codeHistory[i].code
     /\ codeHistory = last.pre.codeHistory

\* handleUndo changed nothing and made no request
UndoChangedNothing ==
  /\ FindIndex(last.pre.codeHistory, last.pre.currentCodeVersionId) = 0
  /\ codeHistory = last.pre.codeHistory
  /\ currentCodeVersionId = last.pre.currentCodeVersionId
  /\ htmlCode = last.pre.htmlCode
  /\ chatMessages = last.pre.chatMessages
  /\ saveReqs = last.pre.saveReqs
  /\ renderReqs = last.pre.renderReqs

\* C3: handleUndo with the current entry at index i > 0 makes the entry at
\* index i-1 current (from version k > 1 the current version becomes k-1); with
\* the current entry at index 0 it changes nothing and requests nothing; the
\* history is unchanged in both cases.
C3_UndoStepsBackOneVersion ==
  /\ last.op = "undo"
       => /\ UndoMovedToPrecedingEntry
          /\ last.pre.currentCodeVersionId > 1
               => currentCodeVersionId = last.pre.currentCodeVersionId - 1
  /\ last.op = "undoNothing" => UndoChangedNothing

\* C4: whenever codeHistory is non-empty it has an entry whose id is
\* currentCodeVersionId.
C4_CurrentVersionInHistory ==
  codeHistory # <<>>
    => \E i \in 1..Len(codeHistory) : codeHistory[i].id = currentCodeVersionId

\* an undo has moved the pointer inside a history of several entries
C4_Witness ==
  /\ last.op = "undo"
  /\ Len(codeHistory) >= 2
  /\ currentCodeVersionId # codeHistory[Len(codeHistory)].id

\* C5: a successful response with the html_code that was sent leaves the
\* history, the current version and htmlCode unchanged, requests no save and
\* no render, and appends exactly one ai message with the reply text.
C5_UnchangedReplyKeepsVersion ==
  UnchangedReply
    => /\ codeHistory = last.pre.codeHistory
       /\ currentCodeVersionId = last.pre.currentCodeVersionId
       /\ htmlCode = last.pre.htmlCode
       /\ last.saveCalls = <<>> /\ saveReqs = last.pre.saveReqs
       /\ last.renderCalls = <<>> /\ renderReqs = last.pre.renderReqs
       /\ Len(chatMessages) = Len(last.pre.chatMessages) + 1
       /\ SubSeq(chatMessages, 1, Len(last.pre.chatMessages)) = last.pre.chatMessages
       /\ chatMessages[Len(chatMessages)].role = "ai"
       /\ chatMessages[Len(chatMessages)].content = "reply"

\* an unchanged reply has been handled for a document that has a history
C5_Witness == UnchangedReply /\ codeHistory # <<>>

\* C6: a failed edit call (thrown, or success = false) leaves the history, the
\* current version and htmlCode unchanged, requests no save and no render,
\* appends exactly one synthetic ai message, and the handler runs to its end.
C6_FailedEditKeepsVersion ==
  FailedEdit
    => /\ codeHistory = last.pre.codeHistory
       /\ currentCodeVersionId = last.pre.currentCodeVersionId
       /\ htmlCode = last.pre.htmlCode
       /\ last.saveCalls = <<>> /\ saveReqs = last.pre.saveReqs
       /\ last.renderCalls = <<>> /\ renderReqs = last.pre.renderReqs
       /\ Len(chatMessages) = Len(last.pre.chatMessages) + 1
       /\ SubSeq(chatMessages, 1, Len(last.pre.chatMessages)) = last.pre.chatMessages
       /\ chatMessages[Len(chatMessages)].role = "ai"
       /\ chatMessages[Len(chatMessages)].content \in {"sorry", "error"}
       /\ ~isModifying

\* a failed edit call has been handled for a document that has a history
C6_Witness == FailedEdit /\ codeHistory # <<>>

\* C7: the saveResume call of an accepted edit carries the (html, id) of the
\* entry this edit appended, which is the new htmlCode and current version,
\* and its version is not the one that was current before the append.
C7_SaveCarriesAppendedEntry ==
  AcceptedEdit
    => /\ codeHistory = Append(last.pre.codeHistory,
                               [id |-> currentCodeVersionId, code |-> htmlCode])
       /\ last.saveCalls = <<[html |-> htmlCode, version |-> currentCodeVersionId]>>
       /\ currentCodeVersionId # last.pre.currentCodeVersionId
       /\ docId # "new"
            => saveReqs = last.pre.saveReqs
                            (+) SetToBag({SaveRequest(htmlCode, currentCodeVersionId)})

\* an accepted edit of a stored document has issued its save
C7_Witness == AcceptedEdit /\ docId # "new" /\ BagCardinality(saveReqs) >= 1

\* C8: at most one /modify-resume request is outstanding, and isModifying is
\* true for as long as it is.
C8_OneEditInFlight ==
  /\ Len(modifyReqs) <= 1
  /\ modifyReqs # <<>> => isModifying

\* a request is outstanding after an earlier one was answered
C8_Witness == Len(modifyReqs) = 1 /\ isModifying /\ Len(chatMessages) >= 3

\* C9 as stated: the version in the durable row never decreases.
C9_RowVersionNeverDecreases == [][row'.version >= row.version]_vars

\* C9 amended: every save a session issues carries the version that is
\* current when it is issued; the save of an accepted edit carries a higher
\* version than the one current before it, and a save carries a lower one
\* only when an undo or an ingestion issues it.
C9_SaveCarriesCurrentVersion ==
  last.saveCalls # <<>>
    => /\ Len(last.saveCalls) = 1
       /\ last.saveCalls[1].version = currentCodeVersionId
       /\ AcceptedEdit => last.saveCalls[1].version > last.pre.currentCodeVersionId
       /\ last.saveCalls[1].version < last.pre.currentCodeVersionId
            => last.op \in {"undo", "ingested"}

\* an undo has issued a save with a lower version for a stored document
C9_Witness ==
  /\ last.op = "undo"
  /\ docId # "new"
  /\ last.saveCalls # <<>>
  /\ last.saveCalls[1].version < last.pre.currentCodeVersionId
  /\ BagIn(SaveRequest(htmlCode, currentCodeVersionId), saveReqs)

\* C10 as stated: an undo that moves the pointer issues exactly one save
\* request and one render request for the entry that became current; an undo
\* that is a no-op issues neither.
C10_UndoIssuesSaveRequest ==
  /\ last.op = "undo"
       => /\ saveReqs = last.pre.saveReqs
                          (+) SetToBag({SaveRequest(htmlCode, currentCodeVersionId)})
          /\ renderReqs = last.pre.renderReqs (+) SetToBag({RenderRequest(htmlCode)})
  /\ last.op = "undoNothing"
       => saveReqs = last.pre.saveReqs /\ renderReqs = last.pre.renderReqs

\* C10 amended: an undo that moves the pointer calls updatePdfPreview once
\* with the code, and saveResume once with the (code, id), of the entry that
\* became current, the one before the entry that was current; the render
\* request goes out, and the save request goes out unless the document id is
\* "new", for which saveResume returns at once.  A no-op undo calls neither.
C10_UndoCallsSaveAndRender ==
  /\ last.op = "undo"
       => /\ UndoMovedToPrecedingEntry
          /\ last.saveCalls = <<[html |-> htmlCode, version |-> currentCodeVersionId]>>
          /\ last.renderCalls = <<htmlCode>>
          /\ renderReqs = last.pre.renderReqs (+) SetToBag({RenderRequest(htmlCode)})
          /\ saveReqs = IF docId = "new" THEN last.pre.saveReqs
                        ELSE last.pre.saveReqs
                               (+) SetToBag({SaveRequest(htmlCode, currentCodeVersionId)})
  /\ last.op = "undoNothing"
       => /\ last.saveCalls = <<>> /\ last.renderCalls = <<>>
          /\ saveReqs = last.pre.saveReqs /\ renderReqs = last.pre.renderReqs

\* both kinds of undo have happened: this one moved the pointer of a "new" document
C10_Witness ==
  /\ last.op = "undo"
  /\ docId = "new"
  /\ BagCardinality(renderReqs) >= 1

\* the preview resources that have not been released
Unreleased == {u \in DOMAIN blobs : ~blobs[u].revoked}

\* C11: once every outstanding render request has completed successfully
\* (none is pending, none of them failed, and no ingestion is between its
\* response and its render), the displayed preview was rendered from htmlCode.
C11_PreviewShowsCurrentSnapshot ==
  /\ renderReqs = EmptyBag
  /\ ~renderFailed
  /\ gen.pc \notin {"save", "render"}
  /\ pdfUrl # NoUrl
  => blobs[pdfUrl].code = htmlCode

\* C12: every blob URL created by updatePdfPreview other than the one held in
\* pdfUrl has been revoked, so at most one preview resource is unreleased.
C12_OnePreviewResourceUnreleased ==
  /\ Cardinality(Unreleased) <= 1
  /\ \A u \in Unreleased : u = pdfUrl

\* C13: when a render request fails pdfUrl is unchanged and still refers to a
\* preview resource that has not been released, isGeneratingPreview is false,
\* no render request is added, and send and undo are not blocked by it.
C13_FailedRenderKeepsPreview ==
  last.op = "renderFailed"
    => /\ pdfUrl = last.pre.pdfUrl
       /\ pdfUrl # NoUrl => ~blobs[pdfUrl].revoked
       /\ ~isGeneratingPreview
       /\ BagCardinality(renderReqs) = BagCardinality(last.pre.renderReqs) - 1
       /\ isModifying = last.pre.isModifying

\* a prompt that is empty or holds white space only
Blank(p) == \A i \in 1..Len(p) : p[i] = " "

\* C14: handleSendMessage called with an empty or whitespace-only prompt
\* issues no network call and leaves chatMessages, userPrompt, isModifying,
\* codeHistory and currentCodeVersionId unchanged.
C14_BlankPromptIsDropped ==
  last.op \in {"send", "sendDropped"} /\ Blank(last.pre.userPrompt)
    => /\ chatMessages = last.pre.chatMessages
       /\ userPrompt = last.pre.userPrompt
       /\ isModifying = last.pre.isModifying
       /\ codeHistory = last.pre.codeHistory
       /\ currentCodeVersionId = last.pre.currentCodeVersionId
       /\ modifyReqs = last.pre.modifyReqs
       /\ requests = last.pre.requests

\* handleSendMessage has run on a prompt of white space only
C14_Witness ==
  /\ last.op = "sendDropped"
  /\ last.pre.userPrompt # <<>>
  /\ Blank(last.pre.userPrompt)

\* C15 as stated: every submission of a non-empty instruction sends exactly
\* one /modify-resume request, whatever its outcome, a credential failure
\* included.
C15_OneRequestPerSubmission ==
  \A j \in DOMAIN modifyReqs : modifyReqs[j].sent = 1

\* C15 amended: a submission of a non-empty instruction sends one
\* /modify-resume request when session.getToken() resolves and none when it
\* rejects; a submission that sent none ends in the catch block; handling the
\* outcome, whatever it is, sends no further request.
C15_OneRequestUnlessTokenFails ==
  /\ \A j \in DOMAIN modifyReqs :
       modifyReqs[j].sent = IF modifyReqs[j].token = "threw" THEN 0 ELSE 1
  /\ last.op = "send"
       => /\ Len(modifyReqs) = Len(last.pre.modifyReqs) + 1
          /\ requests = last.pre.requests + 1
  /\ last.op = "modifyResponse"
       => /\ last.req.sent <= 1
          /\ last.req.sent = 0 => last.resp.outcome = "threw"
          /\ Len(modifyReqs) = Len(last.pre.modifyReqs) - 1
          /\ requests = last.pre.requests

\* a submission whose token could not be obtained has been answered
C15_Witness ==
  /\ last.op = "modifyResponse"
  /\ last.req.sent = 0
  /\ chatMessages[Len(chatMessages)].content = "error"

\* C16: the history sent with an edit request has at most HistoryWindow
\* entries, the most recent turns of the chat log before the submitted
\* instruction, which is not one of them.
C16_HistoryHoldsPriorTurns ==
  last.op = "send"
    => LET sentHistory == modifyReqs[Len(modifyReqs)].history
       IN /\ Len(sentHistory) <= HistoryWindow
          /\ sentHistory = SliceLast(RoleContent(last.pre.chatMessages), HistoryWindow)

\* the last step handled a successful response of the ingestion service
IngestionSucceeded ==
  /\ last.op \in {"ingested", "ingestFailed"}
  /\ last.resp.outcome = "success"

\* the last step handled a failed call of the ingestion service
IngestionFailed ==
  /\ last.op \in {"ingested", "ingestFailed"}
  /\ last.resp.outcome \in {"rejected", "threw"}

\* C17: a successful ingestion response with html H, from any prior state,
\* leaves codeHistory = [{id 1, code H}], currentCodeVersionId = 1,
\* htmlCode = H and step = 2, and isProcessing then eventually becomes false.
C17_IngestionYieldsVersionOne ==
  /\ [](IngestionSucceeded
          => /\ codeHistory = <<[id |-> 1, code |-> last.resp.html_code]>>
             /\ currentCodeVersionId = 1
             /\ htmlCode = last.resp.html_code
             /\ step = 2)
  /\ (IngestionSucceeded ~> ~isProcessing)

\* the ingestion of a stored document has been saved and rendered and the overlay has closed
C17_Witness ==
  /\ ~isProcessing
  /\ gen.pc = "idle"
  /\ docId # "new"
  /\ row.version = 1
  /\ chatMessages = <<Greeting>>
  /\ codeHistory = <<[id |-> 1, code |-> htmlCode]>>

\* C18: when the ingestion fails (thrown, or success = false) isProcessing
\* becomes false, step, codeHistory, currentCodeVersionId, htmlCode and
\* chatMessages are unchanged, and no save or render request is issued.
C18_FailedIngestionChangesNothing ==
  IngestionFailed
    => /\ ~isProcessing
       /\ step = last.pre.step
       /\ codeHistory = last.pre.codeHistory
       /\ currentCodeVersionId = last.pre.currentCodeVersionId
       /\ htmlCode = last.pre.htmlCode
       /\ chatMessages = last.pre.chatMessages
       /\ last.saveCalls = <<>> /\ saveReqs = last.pre.saveReqs
       /\ last.renderCalls = <<>> /\ renderReqs = last.pre.renderReqs

\* an ingestion has failed for a document that has a history
C18_Witness == IngestionFailed /\ codeHistory # <<>>

\* C19: handleExtractAndGenerate called with no file or no template issues
\* no network request and leaves isProcessing false and the rest of the
\* state unchanged.
C19_ValidationBlocksGeneration ==
  last.op = "generateRejected"
    => /\ ~resumeFile \/ ~selectedTemplate
       /\ ~isProcessing
       /\ gen.pc = "idle"
       /\ requests = last.pre.requests
       /\ Snapshot = last.pre

\* the handler has been called with a template and no file
C19_Witness ==
  /\ last.op = "generateRejected"
  /\ selectedTemplate
  /\ ~resumeFile

\* C20: a failed save leaves codeHistory, currentCodeVersionId, htmlCode and
\* chatMessages as they were, isSaving becomes false, the save is not sent
\* again, and send and undo are no more blocked than before.
C20_FailedSaveKeepsState ==
  last.op = "saveFailed"
    => /\ codeHistory = last.pre.codeHistory
       /\ currentCodeVersionId = last.pre.currentCodeVersionId
       /\ htmlCode = last.pre.htmlCode
       /\ chatMessages = last.pre.chatMessages
       /\ ~isSaving
       /\ BagCardinality(saveReqs) = BagCardinality(last.pre.saveReqs) - 1
       /\ isModifying = last.pre.isModifying
       /\ isProcessing = last.pre.isProcessing
       /\ step = last.pre.step

\* the save of an accepted edit has failed
C20_Witness ==
  /\ last.op = "saveFailed"
  /\ Len(codeHistory) >= 2
  /\ row.version # currentCodeVersionId

\* C21: after a failed save the save status shows a failure and not "Saved".
C21_FailedSaveIsNotShownAsSaved ==
  (last.op = "saveFailed" /\ step = 2) => SaveStatus # "Saved"

\* C22: loading a stored document whose HTML is longer than MinHtmlLength
\* and whose version is v leaves the history [{id v, that HTML}], the current
\* version v and step 2, and requests exactly one render, of that HTML; a
\* shorter document (or a failed select) leaves the history empty and step 1
\* and requests no render.  Undo acts only on a history of two entries or
\* more, and the edit accepted on a one-entry history {id v} dispatched at v
\* appends the id v + 1.
C22_LoadStartsHistoryAtStoredVersion ==
  /\ last.op = "load"
       => IF last.resp.outcome = "ok" /\ HtmlLength(row.html) > MinHtmlLength
          THEN /\ codeHistory = <<[id |-> row.version, code |-> row.html]>>
               /\ currentCodeVersionId = row.version
               /\ htmlCode = row.html
               /\ step = 2
               /\ last.renderCalls = <<row.html>>
               /\ renderReqs = SetToBag({RenderRequest(row.html)})
          ELSE /\ codeHistory = <<>>
               /\ step = 1
               /\ last.renderCalls = <<>>
               /\ renderReqs = EmptyBag
  /\ last.op = "undo" => Len(codeHistory) >= 2
  /\ (/\ AcceptedEdit
      /\ Len(last.pre.codeHistory) = 1
      /\ last.pre.codeHistory[1].id = last.req.currentCodeVersionId)
       => /\ Len(codeHistory) = 2
          /\ codeHistory[2].id = last.pre.codeHistory[1].id + 1
          /\ currentCodeVersionId = last.pre.codeHistory[1].id + 1

\* the stored document of version 2 has been loaded
C22_Witness ==
  /\ last.op = "load"
  /\ last.resp.outcome = "ok"
  /\ step = 2
  /\ currentCodeVersionId = 2

\* the newest chat message
NewestMessage == chatMessages[Len(chatMessages)]

\* C23 as stated: every message the edit loop appends (the user's and the
\* reply) carries the version id that is current once the turn's step is done.
C23_EveryMessageCarriesCurrentVersion ==
  last.op \in {"send", "modifyResponse"}
    => NewestMessage.codeVersionId = currentCodeVersionId

\* C23: only the reply to a successful edit call carries a version id: the
\* version the handler captured at dispatch, plus one when the returned HTML
\* differs from the HTML sent, and for such an accepted edit this is the
\* current version after the turn.  The user's message and the reply to a
\* failed call carry none.
C23_OnlySuccessfulReplyCarriesVersion ==
  /\ last.op = "send"
       => /\ NewestMessage.role = "user"
          /\ NewestMessage.codeVersionId = NoVersion
  /\ FailedEdit
       => /\ NewestMessage.role = "ai"
          /\ NewestMessage.codeVersionId = NoVersion
  /\ UnchangedReply
       => NewestMessage.codeVersionId = last.req.currentCodeVersionId
  /\ AcceptedEdit
       => /\ NewestMessage.codeVersionId = last.req.currentCodeVersionId + 1
          /\ NewestMessage.codeVersionId = currentCodeVersionId

\* an edit call has failed after an earlier edit was accepted
C23_Witness ==
  /\ FailedEdit
  /\ Len(codeHistory) >= 2
  /\ Len(chatMessages) >= 4

\* C24: no request goes out without a bearer credential: a request of the
\* edit loop is sent only with the token getToken resolved to, and none is
\* sent when getToken resolves to null or rejects.
C24_NoRequestWithoutCredential ==
  \A i \in DOMAIN modifyReqs :
    /\ modifyReqs[i].sent > 0 => modifyReqs[i].token = "ok"
    /\ modifyReqs[i].token # "ok" => modifyReqs[i].sent = 0

\* the list without the entry of resumeId, told apart from the code's filter:
\* nothing is removed when resumeId is not listed, else exactly its position
WithoutResume(list, resumeId) ==
  IF \E k \in DOMAIN list : list[k] = resumeId
  THEN RemoveAt(list, CHOOSE k \in DOMAIN list : list[k] = resumeId)
  ELSE list

\* C25: a declined confirmation sends no request and changes nothing; a
\* confirmed one starts exactly one run of the delete; a successful delete
\* removes exactly that document from the list, and storage no longer has
\* it; a failed one leaves the list unchanged; deletingId is null when the
\* handler finishes in either case; no other step removes a row from storage.
C25_DeleteNeedsConfirmation ==
  /\ last.op = "deleteDeclined"
       => /\ deleteReqs = last.pre.deleteReqs
          /\ resumes = last.pre.resumes
          /\ storedIds = last.pre.storedIds
          /\ deletingId = last.pre.deletingId
  /\ last.op = "deleteConfirmed"
       => /\ Len(deleteReqs) = Len(last.pre.deleteReqs) + 1
          /\ deleteReqs[Len(deleteReqs)].resumeId = last.resumeId
          /\ resumes = last.pre.resumes
          /\ storedIds = last.pre.storedIds
  /\ last.op = "deleteComplete"
       => /\ deletingId = NoResume
          /\ Len(deleteReqs) = Len(last.pre.deleteReqs) - 1
          /\ IF last.outcome = "ok"
             THEN /\ resumes = WithoutResume(last.pre.resumes, last.resumeId)
                  /\ \A k \in DOMAIN resumes : resumes[k] # last.resumeId
                  /\ last.resumeId \notin storedIds
             ELSE resumes = last.pre.resumes
  /\ last.op \in {"fetched", "deleteDeclined", "deleteConfirmed"}
       => storedIds = last.pre.storedIds

\* a listed document has been deleted while another delete is still running
C25_Witness ==
  /\ last.op = "deleteComplete"
  /\ last.outcome = "ok"
  /\ Len(last.pre.resumes) = Len(resumes) + 1
  /\ deleteReqs # <<>>

C27_SubmissionSendsDisplayedCode ==
  /\ last.op = "send"
       => modifyReqs[Len(modifyReqs)].html_code = last.pre.htmlCode
  /\ codeHistory # <<>> => CurrentCode = htmlCode

\* C28: when no save is outstanding and none has failed, the row of a stored
\* document with a history holds the current (htmlCode, version).
C28_RowHoldsCurrentOnceSavesSucceed ==
  (/\ docId # "new"
   /\ codeHistory # <<>>
   /\ saveReqs = EmptyBag
   /\ ~saveFailed)
    => row = [html |-> htmlCode, version |-> currentCodeVersionId]

\* C29: isSaving is true whenever a save request is outstanding.
C29_SavingWhileSaveOutstanding ==
  saveReqs # EmptyBag => isSaving

\* C30: while an edit call is outstanding the current version is the one
\* captured at dispatch and the history is the one of the dispatch, so an
\* accepted edit gets the version current at its response plus one, appended
\* to the history of the dispatch.
C30_VersionStableWhileEditInFlight ==
  /\ \A i \in DOMAIN modifyReqs :
       modifyReqs[i].currentCodeVersionId = currentCodeVersionId
  /\ AcceptedEdit
       => /\ last.req.currentCodeVersionId = last.pre.currentCodeVersionId
          /\ currentCodeVersionId = last.pre.currentCodeVersionId + 1

====
